---- MODULE Spec2Model ----
(***************************************************************************)
(* Simulated-annealing search for a short closed tour (salesman.py).       *)
(*                                                                         *)
(* Arrays are functions over 0..len-1, so that every index below is the    *)
(* index the Python source uses.  Real numbers are fixed point: a distance *)
(* d is the integer floor(d * Scale), a temperature t the integer          *)
(* t * TScale.                                                             *)
(***************************************************************************)
EXTENDS Integers, Sequences, FiniteSets, TLC

VARIABLES
    \* main()
    cities, distances, route, trials, stage, pc,
    \* optimize_route()
    i, temperature, dt, current_route, current_length, best_route,
    shortest_length, route_changed, new_route,
    \* history of the run (not program state)
    given_length, candidate, accepted, min_accepted, spec_best, spec_shortest,
    swap_calls, temp_updates,
    \* swap_cities() taken step by step
    sw_pc, sw_route, sw_input, sw_redrawn, city1, city2, sw_new,
    \* read_cities_from_file()
    lines, ld_pc, ld_i, ld_cities

main_vars == <<cities, distances, route, trials, stage, pc>>
opt_vars  == <<i, temperature, dt, current_route, current_length, best_route,
               shortest_length, route_changed, new_route>>
hist_vars == <<given_length, candidate, accepted, min_accepted, spec_best,
               spec_shortest, swap_calls, temp_updates>>
swap_vars == <<sw_pc, sw_route, sw_input, sw_redrawn, city1, city2, sw_new>>
load_vars == <<lines, ld_pc, ld_i, ld_cities>>
vars == <<main_vars, opt_vars, hist_vars, swap_vars, load_vars>>

----------------------------------------------------------------------------
\* Bounds of the model.

\* optimize_route is tried with every trial count in -1..MaxTrials.
MaxTrials == 3
\* read_cities_from_file is tried on every file of at most MaxLines lines.
MaxLines == 2
\* swap_cities alone is tried on every closed tour of 2..MaxCities cities.
MaxCities == 5

----------------------------------------------------------------------------
\* Numbers.

\* Fixed-point unit of a distance (the source computes in float64).
Scale == 1000
\* Fixed-point unit of a temperature: 0.01 is 4, so that dt is exact for
\* every trial count of the model.
TScale == 400
\* 1/k for k = 0.01.
InvK == 100
\* exp(x) is 0.0 in float64 for x below about -745.
ExpUnderflow == 745
\* main() chains four optimize_route calls.
NumStages == 4

Min(a, b) == IF a < b THEN a ELSE b
Max(a, b) == IF a > b THEN a ELSE b

\* sqrt of dx*dx + dy*dy, in Scale units, rounded down.
Sqrt(d2) ==
    CHOOSE r \in 0..(Scale * d2) : r * r <= d2 * Scale * Scale
                                   /\ (r + 1) * (r + 1) > d2 * Scale * Scale

----------------------------------------------------------------------------
\* Arrays (numpy arrays and Python lists), 0-based.

Empty == <<>>
ALen(a) == Cardinality(DOMAIN a)
Arr(seq) == [p \in 0..(Len(seq) - 1) |-> seq[p + 1]]

\* np.append(a, b)
Append0(a, b) ==
    [p \in 0..(ALen(a) + ALen(b) - 1) |->
        IF p < ALen(a) THEN a[p] ELSE b[p - ALen(a)]]

\* A slice bound as Python normalises it: a negative bound counts from the
\* end, then it is clamped to lo..hi.
SliceBound(b, len, lo, hi) ==
    LET shifted == IF b < 0 THEN b + len ELSE b
    IN  Max(lo, Min(hi, shifted))

\* a[start:stop]
SliceUp(a, start, stop) ==
    LET len == ALen(a)
        s == SliceBound(start, len, 0, len)
        e == SliceBound(stop, len, 0, len)
        n == Max(0, e - s)
    IN  [p \in 0..(n - 1) |-> a[s + p]]

\* a[start:stop:-1]
SliceDown(a, start, stop) ==
    LET len == ALen(a)
        s == SliceBound(start, len, -1, len - 1)
        e == SliceBound(stop, len, -1, len - 1)
        n == Max(0, s - e)
    IN  [p \in 0..(n - 1) |-> a[s - p]]

----------------------------------------------------------------------------
\* Inputs.

\* The city files the run is tried on: none, two, three, the unit square,
\* and five cities.
CityFiles ==
    { Empty,
      Arr(<< <<0, 0>>, <<1, 0>> >>),
      Arr(<< <<0, 0>>, <<0, 1>>, <<1, 1>> >>),
      Arr(<< <<0, 0>>, <<0, 1>>, <<1, 1>>, <<1, 0>> >>),
      Arr(<< <<0, 0>>, <<0, 1>>, <<1, 1>>, <<1, 0>>, <<2, 1>> >>) }

UnitSquare == Arr(<< <<0, 0>>, <<0, 1>>, <<1, 1>>, <<1, 0>> >>)

TrialCounts == (-1)..MaxTrials

\* random.permutation(n): every permutation of 0..n-1.
permutation(n) ==
    { f \in [0..(n - 1) -> 0..(n - 1)] :
        \A a, b \in 0..(n - 1) : f[a] = f[b] => a = b }

----------------------------------------------------------------------------
\* calculate_distances, get_trip_length

\* Entry (a, b) is written by the iterations (a, b) and (b, a) of the double
\* loop; the later one, i = Max(a, b) and j = Min(a, b), leaves its value.
calculate_distances(cs) ==
    [a \in DOMAIN cs |-> [b \in DOMAIN cs |->
        LET ii == Max(a, b)
            jj == Min(a, b)
            dx == cs[ii][1] - cs[jj][1]
            dy == cs[ii][2] - cs[jj][2]
        IN  Sqrt(dx * dx + dy * dy)]]

RECURSIVE TripSum(_, _, _)
TripSum(r, d, n) ==
    IF n <= 0 THEN 0 ELSE TripSum(r, d, n - 1) + d[r[n - 1]][r[n]]

\* the sum of distances[route[i], route[i+1]] for i in range(len(route)-1)
get_trip_length(r, d) == TripSum(r, d, ALen(r) - 1)

----------------------------------------------------------------------------
\* swap_cities

\* Variants of DrawRange: the draw starts at position 1; the draw stops one
\* position earlier.
DrawRangeFromOne(len) == 1..(len - 2)
DrawRangeShort(len) == 2..(len - 3)

\* The values random.randint(2, len(route)-1) returns: numpy's randint
\* excludes the upper end.
DrawRange(len) == 2..(len - 2)

\* randint raises ValueError when low >= high.
DrawRaises(len) == 2 >= len - 1

\* Variant of BuildRoute: the reversed slice stops one position earlier.
BuildRouteShortSlice(r, c1, c2) ==
    LET begin == SliceUp(r, 0, c1 - 1)
        swap  == SliceDown(r, c2, c1 - 1)
        end   == SliceUp(r, c2 + 1, ALen(r))
    IN  Append0(Append0(begin, swap), end)

\* The route parts and their concatenation, for city1 < city2.
BuildRoute(r, c1, c2) ==
    LET begin == SliceUp(r, 0, c1 - 1)
        swap  == SliceDown(r, c2, c1 - 2)
        end   == SliceUp(r, c2 + 1, ALen(r))
    IN  Append0(Append0(begin, swap), end)

\* The route swap_cities returns when it drew c1 and then c2 # c1.
swap_cities(r, c1, c2) == BuildRoute(r, Min(c1, c2), Max(c1, c2))

----------------------------------------------------------------------------
\* optimize_route

InitialTemperature(s) ==
    CASE s = 1 -> 100 * TScale
      [] s = 2 -> 10 * TScale
      [] s = 3 -> TScale
      [] OTHER -> TScale \div 10

FinalTemperature(s) ==
    CASE s = 1 -> 10 * TScale
      [] s = 2 -> TScale
      [] s = 3 -> TScale \div 10
      [] OTHER -> TScale \div 100

\* a / b for b # 0
TrueDiv(a, b) == IF b < 0 THEN (-a) \div (-b) ELSE a \div b

\* Variant of LoopContinues: one pass more.
LoopOneMore(k, n) == k <= n

\* for i in range(trials)
LoopContinues(k, n) == k < n

\* -dL/k*temperature is Exponent(dL, t) * InvK / (Scale * TScale); the
\* factor InvK is kept out of the product, which would leave 32 bits.
Exponent(dL, t) == (-dL) * t

\* R < exp(x) for some R in [0, 1): exp(x) is not 0.0
AcceptPossible(dL, t) ==
    Exponent(dL, t) > -((ExpUnderflow * Scale * TScale) \div InvK)

\* R >= exp(x) for some R in [0, 1): exp(x) is below 1
RejectPossible(dL, t) == Exponent(dL, t) < 0

\* route_changed when the new route was not shorter
RouteChangedElse(metropolis) == FALSE

\* Variants of IsBest: the comparison turned round; no comparison.
IsBestFlipped(changed, new_length, shortest) == changed /\ new_length > shortest
IsBestNoCompare(changed, new_length, shortest) == changed

\* route_changed and new_length < shortest_length
IsBest(changed, new_length, shortest) == changed /\ new_length < shortest

\* Variant of Returned: the current route is returned.
ReturnedCurrent(best, current) == current

\* return best_route
Returned(best, current) == best

----------------------------------------------------------------------------
\* The values the variables of the other operations keep while one runs.

OptIdle ==
    /\ i = 0 /\ temperature = 0 /\ dt = 0
    /\ current_route = Empty /\ current_length = 0
    /\ best_route = Empty /\ shortest_length = 0
    /\ route_changed = FALSE /\ new_route = Empty

HistIdle ==
    /\ given_length = 0 /\ candidate = Empty /\ accepted = "none"
    /\ min_accepted = 0 /\ spec_best = Empty /\ spec_shortest = 0
    /\ swap_calls = 0 /\ temp_updates = 0

SwapIdle ==
    /\ sw_pc = "idle" /\ sw_route = Empty /\ sw_input = Empty
    /\ sw_redrawn = FALSE
    /\ city1 = 0 /\ city2 = 0 /\ sw_new = Empty

LoadIdle ==
    /\ lines = Empty /\ ld_pc = "idle" /\ ld_i = 0 /\ ld_cities = Empty

MainIdle ==
    /\ cities = Empty /\ distances = Empty /\ route = Empty
    /\ trials = 0 /\ stage = 0 /\ pc = "idle"

----------------------------------------------------------------------------
\* main(): the cities are read, the distances calculated; every call of
\* optimize_route is given the same trial count.

Init ==
    /\ cities \in CityFiles
    /\ distances = calculate_distances(cities)
    /\ route = Empty
    /\ trials \in TrialCounts
    /\ stage = 1
    /\ pc = "create_route"
    /\ OptIdle /\ HistIdle /\ SwapIdle /\ LoadIdle

\* read_route_from_file('') raises, so the route is create_random_route's:
\* a permutation followed by its first index; rand[0] raises IndexError
\* when there is no city.
CreateRandomRoute ==
    /\ pc = "create_route"
    /\ IF ALen(cities) = 0
       THEN /\ pc' = "IndexError"
            /\ UNCHANGED route
       ELSE /\ \E rand \in permutation(ALen(cities)) :
                 route' = Append0(rand, Arr(<<rand[0]>>))
            /\ pc' = "call"
    /\ UNCHANGED <<cities, distances, trials, stage, opt_vars, hist_vars,
                   swap_vars, load_vars>>

\* optimize_route up to its loop: lines 213-228.
OptimizeEnter ==
    /\ pc = "call"
    /\ IF trials - 1 = 0
       THEN /\ pc' = "ZeroDivisionError"
            /\ UNCHANGED <<opt_vars, hist_vars>>
       ELSE /\ temperature' = InitialTemperature(stage)
            /\ current_route' = route
            /\ best_route' = route
            /\ shortest_length' = get_trip_length(route, distances)
            /\ current_length' = shortest_length'
            /\ dt' = TrueDiv(FinalTemperature(stage) - InitialTemperature(stage),
                             trials - 1)
            /\ i' = 0
            /\ route_changed' = FALSE
            /\ new_route' = Empty
            /\ given_length' = shortest_length'
            /\ candidate' = Empty
            /\ accepted' = "none"
            /\ min_accepted' = shortest_length'
            /\ spec_best' = route
            /\ spec_shortest' = shortest_length'
            /\ swap_calls' = 0
            /\ temp_updates' = 0
            /\ pc' = "loop"
    /\ UNCHANGED <<cities, distances, route, trials, stage, swap_vars, load_vars>>

\* One pass of the loop body, lines 233-267, with the positions swap_cities
\* drew and the outcome of R < exp(-dL/k*temperature) where R is drawn.
Trial ==
    /\ pc = "loop"
    /\ LoopContinues(i, trials)
    /\ ~DrawRaises(ALen(current_route))
    /\ \E c1 \in DrawRange(ALen(current_route)),
          c2 \in DrawRange(ALen(current_route)),
          below \in BOOLEAN :
        /\ c1 # c2
        /\ \E made \in {swap_cities(current_route, c1, c2)} :
           \E new_length \in {get_trip_length(made, distances)} :
           LET dL == new_length - current_length
               shorter == new_length < current_length
               metropolis == ~shorter /\ below
               taken == shorter \/ metropolis
               changed == IF shorter THEN TRUE ELSE RouteChangedElse(metropolis)
               best == IsBest(changed, new_length, shortest_length)
               spec_is_best == taken /\ new_length < spec_shortest
           IN  /\ ~shorter /\ below => AcceptPossible(dL, temperature)
               /\ ~shorter /\ ~below => RejectPossible(dL, temperature)
               /\ shorter => below
               /\ current_route' = IF taken THEN made ELSE current_route
               /\ current_length' = IF taken THEN new_length ELSE current_length
               /\ route_changed' = changed
               /\ new_route' = IF shorter THEN made ELSE Empty
               /\ best_route' = IF best THEN made ELSE best_route
               /\ shortest_length' = IF best THEN new_length ELSE shortest_length
               /\ candidate' = made
               /\ accepted' = IF shorter THEN "shorter"
                              ELSE IF metropolis THEN "metropolis" ELSE "rejected"
               /\ min_accepted' = IF taken THEN Min(min_accepted, new_length)
                                  ELSE min_accepted
               /\ spec_best' = IF spec_is_best THEN made ELSE spec_best
               /\ spec_shortest' = IF spec_is_best THEN new_length ELSE spec_shortest
    /\ temperature' = temperature + dt
    /\ i' = i + 1
    /\ swap_calls' = swap_calls + 1
    /\ temp_updates' = temp_updates + 1
    /\ UNCHANGED <<main_vars, dt, given_length, swap_vars, load_vars>>

\* swap_cities raises: randint(2, len(route)-1) has no value to return.
TrialRaises ==
    /\ pc = "loop"
    /\ LoopContinues(i, trials)
    /\ DrawRaises(ALen(current_route))
    /\ pc' = "ValueError"
    /\ swap_calls' = swap_calls + 1
    /\ UNCHANGED <<cities, distances, route, trials, stage, opt_vars,
                   given_length, candidate, accepted, min_accepted, spec_best,
                   spec_shortest, temp_updates, swap_vars, load_vars>>

\* return best_route; main() passes it to the next call, lines 306-309.
OptimizeReturn ==
    /\ pc = "loop"
    /\ ~LoopContinues(i, trials)
    /\ route' = Returned(best_route, current_route)
    /\ IF stage < NumStages
       THEN stage' = stage + 1 /\ pc' = "call"
       ELSE stage' = stage /\ pc' = "done"
    /\ UNCHANGED <<cities, distances, trials, opt_vars, hist_vars, swap_vars,
                   load_vars>>

Next ==
    \/ CreateRandomRoute
    \/ OptimizeEnter
    \/ Trial
    \/ TrialRaises
    \/ OptimizeReturn

Spec == Init /\ [][Next]_vars

----------------------------------------------------------------------------
\* swap_cities step by step: the first draw, the loop that draws city2
\* until it differs from city1, and the construction of the new route.

\* create_random_route's routes over n cities.
ClosedTours(n) ==
    { Append0(rand, Arr(<<rand[0]>>)) : rand \in permutation(n) }

SwapInit ==
    /\ \E n \in 2..MaxCities : sw_route \in ClosedTours(n)
    /\ sw_input = sw_route
    /\ sw_pc = "draw1"
    /\ sw_redrawn = FALSE
    /\ city1 = 0 /\ city2 = 0 /\ sw_new = Empty
    /\ MainIdle /\ OptIdle /\ HistIdle /\ LoadIdle

\* city1 = random.randint(2, len(route)-1)
SwapDraw1 ==
    /\ sw_pc = "draw1"
    /\ IF DrawRaises(ALen(sw_route))
       THEN sw_pc' = "ValueError" /\ city1' = city1
       ELSE sw_pc' = "draw2" /\ city1' \in DrawRange(ALen(sw_route))
    /\ UNCHANGED <<sw_route, sw_input, sw_redrawn, city2, sw_new, main_vars,
                   opt_vars, hist_vars, load_vars>>

\* city2 is drawn equal to city1: the loop goes round
SwapDrawAgain ==
    /\ sw_pc = "draw2"
    /\ \E c \in DrawRange(ALen(sw_route)) :
        /\ c = city1
        /\ city2' = c
    /\ sw_redrawn' = TRUE
    /\ UNCHANGED <<sw_pc, sw_route, sw_input, city1, sw_new, main_vars,
                   opt_vars, hist_vars, load_vars>>

\* city2 is drawn different from city1: the two are ordered, the loop ends
SwapDrawDistinct ==
    /\ sw_pc = "draw2"
    /\ \E c \in DrawRange(ALen(sw_route)) :
        /\ c # city1
        /\ IF c < city1
           THEN city2' = city1 /\ city1' = c
           ELSE city2' = c /\ city1' = city1
    /\ sw_pc' = "build"
    /\ UNCHANGED <<sw_route, sw_input, sw_redrawn, sw_new, main_vars,
                   opt_vars, hist_vars, load_vars>>

\* lines 182-192
SwapBuild ==
    /\ sw_pc = "build"
    /\ sw_new' = BuildRoute(sw_route, city1, city2)
    /\ sw_pc' = "returned"
    /\ UNCHANGED <<sw_route, sw_input, sw_redrawn, city1, city2, main_vars,
                   opt_vars, hist_vars, load_vars>>

SwapNext ==
    \/ SwapDraw1
    \/ SwapDrawAgain
    \/ SwapDrawDistinct
    \/ SwapBuild

\* Each statement is eventually executed; the draws are independent and
\* uniform, so a value other than city1 is eventually drawn when the range
\* holds one.
SwapSpec ==
    /\ SwapInit
    /\ [][SwapNext]_vars
    /\ WF_vars(SwapDraw1 \/ SwapDrawDistinct \/ SwapBuild)

----------------------------------------------------------------------------
\* read_cities_from_file.  A line is a sequence of characters.

Whitespace == {" ", "\n"}
Digits == {"0", "1", "2", "3", "4", "5", "6", "7", "8", "9"}

DigitValue(c) ==
    CASE c = "0" -> 0 [] c = "1" -> 1 [] c = "2" -> 2 [] c = "3" -> 3
      [] c = "4" -> 4 [] c = "5" -> 5 [] c = "6" -> 6 [] c = "7" -> 7
      [] c = "8" -> 8 [] c = "9" -> 9

\* line.split(): the maximal runs of characters that are not whitespace
RECURSIVE SplitFrom(_, _, _)
SplitFrom(line, k, word) ==
    IF k > Len(line)
    THEN IF word = <<>> THEN <<>> ELSE <<word>>
    ELSE IF line[k] \in Whitespace
         THEN IF word = <<>>
              THEN SplitFrom(line, k + 1, <<>>)
              ELSE <<word>> \o SplitFrom(line, k + 1, <<>>)
         ELSE SplitFrom(line, k + 1, Append(word, line[k]))

split(line) == SplitFrom(line, 1, <<>>)

\* float(word) raises ValueError unless word is a number; over the
\* characters of the model the numbers are the digit strings.
FloatRaises(word) == word = <<>> \/ \E k \in 1..Len(word) : word[k] \notin Digits

RECURSIVE float(_)
float(word) ==
    IF word = <<>> THEN 0
    ELSE 10 * float(SubSeq(word, 1, Len(word) - 1)) + DigitValue(word[Len(word)])

\* The lines a file is made of.
LineChoices ==
    { <<"1", " ", "2", "\n">>,
      <<" ", "1", "2", " ", " ", "1", "\n">>,
      <<"\n">>,
      <<" ", "\n">>,
      <<"1", "\n">>,
      <<"a", " ", "2", "\n">>,
      <<"2", " ", "a", "\n">>,
      <<"a", "\n">> }

Files ==
    UNION { [0..(n - 1) -> LineChoices] : n \in 0..MaxLines }

LoadInit ==
    /\ lines \in Files
    /\ ld_pc = "loop"
    /\ ld_i = 0
    /\ ld_cities = Empty
    /\ MainIdle /\ OptIdle /\ HistIdle /\ SwapIdle

\* One pass of the loop, lines 54-57.  float(parts[0]) is evaluated first,
\* then parts[1] is indexed, then float(parts[1]).
ReadLine ==
    /\ ld_pc = "loop"
    /\ ld_i < ALen(lines)
    /\ LET parts == split(lines[ld_i])
       IN  IF Len(parts) > 0
           THEN IF FloatRaises(parts[1])
                THEN ld_pc' = "ValueError" /\ UNCHANGED <<ld_i, ld_cities>>
                ELSE IF Len(parts) < 2
                THEN ld_pc' = "IndexError" /\ UNCHANGED <<ld_i, ld_cities>>
                ELSE IF FloatRaises(parts[2])
                THEN ld_pc' = "ValueError" /\ UNCHANGED <<ld_i, ld_cities>>
                ELSE /\ ld_cities' =
                          Append0(ld_cities,
                                  Arr(<< <<float(parts[1]), float(parts[2])>> >>))
                     /\ ld_i' = ld_i + 1
                     /\ ld_pc' = ld_pc
           ELSE /\ ld_i' = ld_i + 1
                /\ UNCHANGED <<ld_pc, ld_cities>>
    /\ UNCHANGED <<lines, main_vars, opt_vars, hist_vars, swap_vars>>

\* return np.array(cities)
LoadReturn ==
    /\ ld_pc = "loop"
    /\ ld_i >= ALen(lines)
    /\ ld_pc' = "returned"
    /\ UNCHANGED <<lines, ld_i, ld_cities, main_vars, opt_vars, hist_vars,
                   swap_vars>>

LoadNext ==
    \/ ReadLine
    \/ LoadReturn

LoadSpec == LoadInit /\ [][LoadNext]_vars

----------------------------------------------------------------------------
\* Properties of the annealing run (Spec).

\* A closed tour over n cities: n + 1 positions, the last equal to the
\* first, the first n a permutation of 0..n-1.
ValidTour(r, n) ==
    /\ DOMAIN r = 0..n
    /\ r[n] = r[0]
    /\ { r[p] : p \in 0..(n - 1) } = 0..(n - 1)

NCities == ALen(cities)

\* optimize_route has been entered, and perhaps left again
Entered == pc \in {"loop", "done"} \/ (pc = "call" /\ stage > 1)

\* a call of optimize_route has returned
HasReturned == pc = "done" \/ (pc = "call" /\ stage > 1)

Errors == {"IndexError", "ZeroDivisionError", "ValueError"}

\* C1: with N >= 4 cities, every route swap_cities makes from the current
\* route has the N + 1 positions, the first and the last entry of the route
\* optimize_route was given, and a permutation of 0..N-1 in its first N
\* positions; so the current and the best route are valid closed tours after
\* any number of trials.
C1_ToursStayValid ==
    (Entered /\ NCities >= 4) =>
        /\ ValidTour(current_route, NCities)
        /\ ValidTour(best_route, NCities)
        /\ candidate # Empty =>
              /\ ValidTour(candidate, NCities)
              /\ ALen(candidate) = ALen(route)
              /\ (pc = "loop" => /\ candidate[0] = route[0]
                                 /\ candidate[NCities] = route[NCities])

C1_Witness ==
    /\ pc = "loop" /\ NCities = 5 /\ i >= 2
    /\ candidate # route
    /\ current_route = candidate
    /\ best_route # route /\ best_route # current_route

\* C2: for T >= 2 the best length never increases from one trial to the
\* next, and the route optimize_route returns is no longer than the route it
\* was given.
C2_BestNeverIncreases ==
    [][trials >= 2 =>
         /\ (pc = "loop" /\ pc' = "loop") => shortest_length' <= shortest_length
         /\ (pc = "loop" /\ pc' \in {"call", "done"}) =>
                get_trip_length(route', distances)
                    <= get_trip_length(route, distances)]_vars

C2_Witness ==
    /\ HasReturned /\ trials >= 2
    /\ get_trip_length(route, distances) < given_length
    /\ current_length > shortest_length

\* C6: for T >= 2 and N >= 4 no error ends the call, dt is the temperature
\* interval divided by T - 1, swap_cities is called and the temperature
\* changed once per trial and never more than T times, swap_cities always
\* has two distinct positions to draw, and the call returns the best route
\* after exactly T trials.
C6_ExactlyTTrials ==
    (trials >= 2 /\ NCities >= 4) =>
        /\ pc \notin Errors
        /\ swap_calls <= trials /\ temp_updates <= trials
        /\ pc = "loop" =>
              /\ swap_calls = i /\ temp_updates = i
              /\ dt * (trials - 1)
                    = FinalTemperature(stage) - InitialTemperature(stage)
              /\ temperature = InitialTemperature(stage) + i * dt
              /\ LoopContinues(i, trials) =>
                    /\ ~DrawRaises(ALen(current_route))
                    /\ Cardinality(DrawRange(ALen(current_route))) >= 2
        /\ HasReturned =>
              /\ swap_calls = trials /\ temp_updates = trials
              /\ route = best_route

C6_Witness ==
    /\ pc = "done" /\ trials = 2 /\ NCities >= 4
    /\ swap_calls = 2 /\ temp_updates = 2

\* C7: after every trial the best route and the best length are those of
\* the state machine that replaces the best by every accepted candidate
\* (accepted because it is shorter, or by the Metropolis test) that is
\* shorter than the best.
C7_BestFollowsAccepted ==
    Entered => /\ best_route = spec_best
               /\ shortest_length = spec_shortest

C7_Witness ==
    /\ pc = "loop" /\ accepted = "shorter"
    /\ best_route = candidate
    /\ shortest_length < given_length
    /\ NCities >= 4

\* C10: at the end of every trial the best length is at most the current
\* length, is the length of the best route, and is the least length among
\* the routes that have been the current route.
C10_BestIsMinimumAccepted ==
    Entered => /\ shortest_length <= current_length
               /\ shortest_length = get_trip_length(best_route, distances)
               /\ current_length = get_trip_length(current_route, distances)
               /\ shortest_length = min_accepted

C10_Witness ==
    /\ pc = "loop" /\ accepted = "metropolis"
    /\ current_length > shortest_length
    /\ shortest_length < given_length

\* C3: on the unit square the run ends with a tour of length 4.0, whatever
\* the initial tour.
C3_SquareReachesOptimum ==
    (cities = UnitSquare /\ trials >= 2 /\ pc = "done") =>
        get_trip_length(route, distances) = 4 * Scale

\* On the unit square every candidate has the length of the initial route:
\* the only pair swap_cities can draw is (2, 3), which turns the tour round.
SquareLengthFixed ==
    (cities = UnitSquare /\ Entered) =>
        /\ current_length = get_trip_length(route, distances)
        /\ candidate # Empty =>
              get_trip_length(candidate, distances) = current_length

\* C4: a trial count below 2 or an empty city list ends in an error: no
\* trial is executed and no call of optimize_route returns a route.
C4_InvalidParametersRejected ==
    (trials < 2 \/ NCities = 0) =>
        /\ ~HasReturned
        /\ swap_calls = 0
        /\ pc \in {"create_route", "call"} \cup Errors

----------------------------------------------------------------------------
\* Properties of swap_cities (SwapSpec).

SwapLen == ALen(sw_route)

\* C9: for N >= 4 the returned route is the input with the positions
\* city1-1 .. city2 in reversed order and every other position unchanged;
\* the reversed block begins after position 0 and ends before the last
\* position; the input route is not modified.
C9_ReversesInnerBlock ==
    (sw_pc = "returned" /\ SwapLen >= 5) =>
        /\ 2 <= city1 /\ city1 < city2 /\ city2 < SwapLen - 1
        /\ DOMAIN sw_new = DOMAIN sw_route
        /\ \A p \in DOMAIN sw_route :
              sw_new[p] = IF city1 - 1 <= p /\ p <= city2
                          THEN sw_route[city1 - 1 + city2 - p]
                          ELSE sw_route[p]
        /\ sw_new[0] = sw_route[0]
        /\ sw_new[SwapLen - 1] = sw_route[SwapLen - 1]
        /\ sw_route = sw_input

\* the boundary case: city1 = 2, the slice stops at index 0
C9_Witness ==
    /\ sw_pc = "returned" /\ SwapLen = 6
    /\ city1 = 2 /\ city2 = 4
    /\ sw_new # sw_route
    /\ sw_new[1] = sw_route[4] /\ sw_new[5] = sw_route[5]

\* C8 as amended: with at least 5 positions (N >= 4) swap_cities raises no
\* error and, the draws being fair, leaves its loop and returns a route;
\* with 4 positions it never leaves the loop, with 3 it raises.
C8_LoopExitsFromFivePositions ==
    /\ [](SwapLen >= 5 => sw_pc # "ValueError")
    /\ [](SwapLen = 4 => sw_pc \in {"draw1", "draw2"})
    /\ [](SwapLen = 3 => sw_pc \in {"draw1", "ValueError"})
    /\ (SwapLen >= 5 /\ sw_pc = "draw1") ~> (sw_pc = "returned")

\* the loop went round at least once before it ended
C8_Witness ==
    /\ sw_pc = "returned" /\ SwapLen = 5
    /\ sw_redrawn
    /\ ValidTour(sw_new, 4)

\* C8: with more than 3 positions swap_cities raises no error and, the
\* draws being fair, leaves its loop and returns a route.
C8_LoopExitsFromFourPositions ==
    /\ [](SwapLen > 3 => sw_pc # "ValueError")
    /\ (SwapLen > 3 /\ sw_pc = "draw1") ~> (sw_pc = "returned")

----------------------------------------------------------------------------
\* Properties of read_cities_from_file (LoadSpec).

\* a line of two numbers
ValidLine(line) ==
    /\ Len(split(line)) = 2
    /\ ~FloatRaises(split(line)[1])
    /\ ~FloatRaises(split(line)[2])

RECURSIVE ValidCities(_, _)
ValidCities(file, n) ==
    IF n = 0 THEN Empty
    ELSE IF ValidLine(file[n - 1])
         THEN Append0(ValidCities(file, n - 1),
                      Arr(<< <<float(split(file[n - 1])[1]),
                               float(split(file[n - 1])[2])>> >>))
         ELSE ValidCities(file, n - 1)

\* C5: no line makes the loader end in an error, and it returns the cities
\* of the lines of two numbers, in their order.
C5_MalformedLinesSkipped ==
    /\ ld_pc \notin Errors
    /\ ld_pc = "returned" => ld_cities = ValidCities(lines, ALen(lines))

====
